---- MODULE Spec2Model ----
(***************************************************************************)
(* PyODCsvConverter (CsvConverter.py): a spreadsheet document is loaded    *)
(* into a running LibreOffice over the UNO bridge and every sheet is       *)
(* stored as one CSV file.                                                 *)
(*                                                                         *)
(* Strings the program computes with (paths, extensions, sheet names,      *)
(* URLs) are sequences of one-character strings, so that the path and URL  *)
(* conversions are computed and not assumed.  Opaque strings (filter       *)
(* names, host names, exception names) are TLA+ strings.                   *)
(***************************************************************************)
EXTENDS Integers, Sequences, FiniteSets, TLC

\* ------------------------------------------------------------------ bounds

\* largest number of sheets of a loaded document
MaxSheets == 3

\* longest input path enumerated exhaustively for get_file_ext
MaxPathLen == 5

\* ------------------------------------------------- configuration constants

DEFAULT_OPENOFFICE_HOST == "localhost"

DEFAULT_OPENOFFICE_PORT == 2002

\* a dict is the sequence of its <<key, value>> items in insertion order
EmptyDict == << >>

TXT_FILTER == << <<"FilterName", "Text (encoded)">>, <<"FilterOptions", "utf8">> >>

CSV_IMPORT_FILTER == << <<"FilterName", "Text - txt - csv (StarCalc)">>, <<"FilterOptions", "44,34,0">> >>

\* the keys of IMPORT_FILTER_MAP
IMPORT_FILTER_KEYS == { <<"t", "x", "t">>, <<"c", "s", "v">> }

IMPORT_FILTER_MAP(key) ==
    IF key = <<"t", "x", "t">> THEN TXT_FILTER ELSE CSV_IMPORT_FILTER

CSV_EXPORT_FILTER == << <<"FilterName", "Text - txt - csv (StarCalc)">>, <<"FilterOptions", "44,34,0">> >>

\* ------------------------------------------------------- string primitives

\* str.lower() on one character
LowerChar(c) ==
    CASE c = "A" -> "a"
      [] c = "C" -> "c"
      [] c = "S" -> "s"
      [] c = "T" -> "t"
      [] c = "V" -> "v"
      [] c = "X" -> "x"
      [] OTHER -> c

\* str.lower()
Lower(s) == [i \in 1..Len(s) |-> LowerChar(s[i])]

\* str.rfind(c), 1-based; 0 when c does not occur (Python's -1)
RFind(s, c) ==
    IF \E i \in 1..Len(s) : s[i] = c
    THEN CHOOSE i \in 1..Len(s) : s[i] = c /\ \A j \in (i+1)..Len(s) : s[j] # c
    ELSE 0

\* s[from:] with a 1-based first position
Tail_From(s, from) == SubSeq(s, from, Len(s))

\* genericpath._splitext(p, '/', None, '.')[1]: the extension with its dot.
\* The last dot counts only if it lies in the last path component and some
\* character of that component before it is not a dot.
SplitExt(p) ==
    LET sepIndex == RFind(p, "/")
        dotIndex == RFind(p, ".")
    IN  IF dotIndex > sepIndex
           /\ \E k \in (sepIndex+1)..(dotIndex-1) : p[k] # "."
        THEN Tail_From(p, dotIndex)
        ELSE << >>

\* mutant of get_file_ext: the extension is not lower-cased
GetFileExtKeepCase(path) == Tail_From(SplitExt(path), 2)

\* get_file_ext(path): ext[1:].lower(); ext is never None, so '' is returned
\* for a path without extension
get_file_ext(path) == Lower(Tail_From(SplitExt(path), 2))

\* str(n) for n >= 0
RECURSIVE Str(_)
Str(n) ==
    LET digit == <<"0", "1", "2", "3", "4", "5", "6", "7", "8", "9">>[(n % 10) + 1]
    IN  IF n < 10 THEN <<digit>> ELSE Append(Str(n \div 10), digit)

\* ---------------------------------------------------------- path handling

\* os.getcwd() of the process
Cwd == <<"/", "w">>

\* posixpath.join(a, b)
Join(a, b) ==
    IF Len(b) > 0 /\ b[1] = "/" THEN b
    ELSE IF Len(a) = 0 \/ a[Len(a)] = "/" THEN a \o b
    ELSE a \o <<"/">> \o b

\* str.split('/'): the components between slashes, empty ones included
RECURSIVE Split(_)
Split(p) ==
    IF \A i \in 1..Len(p) : p[i] # "/"
    THEN <<p>>
    ELSE LET k == CHOOSE i \in 1..Len(p) : p[i] = "/" /\ \A j \in 1..(i-1) : p[j] # "/"
         IN  <<SubSeq(p, 1, k-1)>> \o Split(SubSeq(p, k+1, Len(p)))

\* '/'.join(comps)
RECURSIVE JoinSlash(_)
JoinSlash(comps) ==
    IF Len(comps) = 0 THEN << >>
    ELSE IF Len(comps) = 1 THEN comps[1]
    ELSE comps[1] \o <<"/">> \o JoinSlash(Tail(comps))

\* the loop of posixpath.normpath over the components
RECURSIVE NormComps(_, _, _)
NormComps(comps, new_comps, initial_slashes) ==
    IF Len(comps) = 0 THEN new_comps
    ELSE LET comp == Head(comps)
             rest == Tail(comps)
         IN  IF comp = << >> \/ comp = <<".">>
             THEN NormComps(rest, new_comps, initial_slashes)
             ELSE IF comp # <<".", ".">>
                     \/ (initial_slashes = 0 /\ Len(new_comps) = 0)
                     \/ (Len(new_comps) > 0 /\ new_comps[Len(new_comps)] = <<".", ".">>)
             THEN NormComps(rest, Append(new_comps, comp), initial_slashes)
             ELSE IF Len(new_comps) > 0
             THEN NormComps(rest, SubSeq(new_comps, 1, Len(new_comps) - 1), initial_slashes)
             ELSE NormComps(rest, new_comps, initial_slashes)

\* posixpath.normpath(path)
NormPath(path) ==
    IF Len(path) = 0 THEN <<".">>
    ELSE LET starts(n) == Len(path) >= n /\ \A i \in 1..n : path[i] = "/"
             initial_slashes == IF ~starts(1) THEN 0
                                ELSE IF starts(2) /\ ~starts(3) THEN 2 ELSE 1
             joined == JoinSlash(NormComps(Split(path), << >>, initial_slashes))
             out == [i \in 1..initial_slashes |-> "/"] \o joined
         IN  IF Len(out) = 0 THEN <<".">> ELSE out

\* os.path.abspath(path)
AbsPath(path) ==
    IF Len(path) > 0 /\ path[1] = "/" THEN NormPath(path) ELSE NormPath(Join(Cwd, path))

\* the percent-encoding of one character of a system path in a file URL
EncodeChar(c) ==
    CASE c = " " -> <<"%", "2", "0">>
      [] c = "%" -> <<"%", "2", "5">>
      [] c = "#" -> <<"%", "2", "3">>
      [] OTHER -> <<c>>

RECURSIVE Encode(_)
Encode(s) == IF Len(s) = 0 THEN << >> ELSE EncodeChar(Head(s)) \o Encode(Tail(s))

FileScheme == <<"f", "i", "l", "e", ":", "/", "/">>

\* uno.systemPathToFileUrl(path) for an absolute path
SystemPathToFileUrl(path) == FileScheme \o Encode(path)

\* path_to_url(path)
path_to_url(path) == SystemPathToFileUrl(AbsPath(path))

\* dict_to_uno_properties(d): one PropertyValue per key, in the dict's order
dict_to_uno_properties(d) == [i \in 1..Len(d) |-> [Name |-> d[i][1], Value |-> d[i][2]]]

\* dict.update(other) on an empty dict or one with disjoint keys
DictUpdate(d, other) == d \o other

\* ----------------------------------------------------------------- inputs

\* command lines the CLI is started with (the input paths that matter to
\* the load options are enumerated by InputPaths below)
InputFiles == { <<"a", ".", "c", "s", "v">> }

OutputDirs == { <<"o">>, <<"/", "t", "/">> }

Hosts == { DEFAULT_OPENOFFICE_HOST, "office" }

Ports == { DEFAULT_OPENOFFICE_PORT, 8100 }

\* display names the sheets of a document may carry
SheetNames == { << >>, <<"a">>, <<".", " ">> }

SheetLists == UNION { [1..n -> SheetNames] : n \in 1..MaxSheets }

\* ------------------------------------------------------------------ state

VARIABLES
    pc,                 \* position of the process in main() / convert()
    input_file,         \* args.input_file
    output_dir,         \* args.output_dir
    host,               \* args.host
    port,               \* args.port
    slow,               \* args.slow
    keep_open,          \* args.keep_open
    ignore_sheet_names, \* args.ignore_sheet_names
    desktop,            \* self.desktop has been obtained
    load_properties,    \* the dict load_properties of convert()
    document,           \* the value loadComponentFromURL returned, as the service holds it
    count,              \* doc_sheets.Count as read by range()
    sheet_no,           \* the loop variable
    exception,          \* the exception in flight or propagated to main()
    log,                \* remote requests issued so far, in order, with their outcome
    files,              \* files the service has written: url and the sheet stored in it
    sleeps,             \* number of time.sleep(1) calls
    calls,              \* number of times convert() was entered
    exit_code,          \* status of the process once it ended; -1 while running
    stderr              \* what main() printed to stderr

vars == << pc, input_file, output_dir, host, port, slow, keep_open, ignore_sheet_names,
           desktop, load_properties, document, count, sheet_no, exception, log, files,
           sleeps, calls, exit_code, stderr >>

args == << input_file, output_dir, host, port, slow, keep_open, ignore_sheet_names >>

NoException == [kind |-> "none", op |-> "none", host |-> "none", port |-> 0, sheet |-> -1]

\* mutant of LibreOfficeConnectionException: the defaults instead of the
\* host and port given
ConnectionExceptionDefaults(h, p) ==
    [kind |-> "LibreOfficeConnectionException", op |-> "resolve",
     host |-> DEFAULT_OPENOFFICE_HOST, port |-> DEFAULT_OPENOFFICE_PORT, sheet |-> -1]

\* LibreOfficeConnectionException(host=host, port=port)
LibreOfficeConnectionException(h, p) ==
    [kind |-> "LibreOfficeConnectionException", op |-> "resolve", host |-> h, port |-> p, sheet |-> -1]

\* a failure the remote service raises from the call op (for sheet index sheet)
RemoteError(op, sheet) ==
    [kind |-> "ErrorCodeIOException", op |-> op, host |-> "none", port |-> 0, sheet |-> sheet]

\* Python's AttributeError from the attribute access op
AttributeError(op) ==
    [kind |-> "AttributeError", op |-> op, host |-> "none", port |-> 0, sheet |-> -1]

NoDocument == [state |-> "unset", sheets |-> << >>, canRefresh |-> FALSE, active |-> -1]

\* loadComponentFromURL returned None
NullDocument == [state |-> "null", sheets |-> << >>, canRefresh |-> FALSE, active |-> -1]

\* the documents the service may return for a load request
Documents ==
    { d \in { [state |-> "open", sheets |-> s, canRefresh |-> r, active |-> a] :
                s \in SheetLists, r \in BOOLEAN, a \in 0..(MaxSheets - 1) } :
        d.active < Len(d.sheets) }

Request(op, sheet, url, props, ok, active) ==
    [op |-> op, sheet |-> sheet, url |-> url, props |-> props, ok |-> ok, active |-> active]

Init ==
    /\ pc = "main"
    /\ input_file \in InputFiles
    /\ output_dir \in OutputDirs
    /\ host \in Hosts
    /\ port \in Ports
    /\ slow \in BOOLEAN
    /\ keep_open \in BOOLEAN
    /\ ignore_sheet_names \in BOOLEAN
    /\ desktop = FALSE
    /\ load_properties = EmptyDict
    /\ document = NoDocument
    /\ count = 0
    /\ sheet_no = 0
    /\ exception = NoException
    /\ log = << >>
    /\ files = {}
    /\ sleeps = 0
    /\ calls = 0
    /\ exit_code = -1
    /\ stderr = "none"

\* ---------------------------------------------------------------- main()

\* main(), lines 209-223: the checks of the command line before any
\* connection is made.  What the file system holds is an input.
Main ==
    /\ pc = "main"
    /\ \E isfile \in BOOLEAN, dir \in {"absent", "dir", "other"} :
          IF ~isfile
          THEN /\ stderr' = "No such file"
               /\ exit_code' = 1
               /\ pc' = "exit"
          ELSE IF dir = "other"
          THEN /\ stderr' = "Not a directory"
               /\ exit_code' = 1
               /\ pc' = "exit"
          ELSE /\ pc' = "connect"
               /\ UNCHANGED << stderr, exit_code >>
    /\ UNCHANGED << args, desktop, load_properties, document, count, sheet_no,
                    exception, log, files, sleeps, calls >>

\* CsvConverter.__init__: resolver.resolve() either yields the context, from
\* which the desktop is created, or raises NoConnectException.
Connect ==
    /\ pc = "connect"
    /\ \E connected \in BOOLEAN :
          IF connected
          THEN /\ desktop' = TRUE
               /\ pc' = "convert"
               /\ UNCHANGED exception
          ELSE /\ exception' = LibreOfficeConnectionException(host, port)
               /\ pc' = "end"
               /\ UNCHANGED desktop
    /\ UNCHANGED << args, load_properties, document, count, sheet_no, log, files,
                    sleeps, calls, exit_code, stderr >>

\* -------------------------------------------------------------- convert()

\* lines 139-144: the load options chosen from the extension of input_file
LoadProperties(path) ==
    LET input_ext == get_file_ext(path)
    IN  IF input_ext \in IMPORT_FILTER_KEYS
        THEN DictUpdate(EmptyDict, IMPORT_FILTER_MAP(input_ext))
        ELSE EmptyDict

\* lines 129-144: convert() is entered and the load options are computed
ComputeLoadProperties ==
    /\ pc = "convert"
    /\ calls' = calls + 1
    /\ load_properties' = LoadProperties(input_file)
    /\ pc' = "load"
    /\ UNCHANGED << args, desktop, document, count, sheet_no, exception, log, files,
                    sleeps, exit_code, stderr >>

\* lines 146-148: loadComponentFromURL is called with the load options.  It
\* returns a document, returns None (the service could not load the file)
\* or raises; outcomes are the results the service may give.
LoadWith(outcomes) ==
    /\ pc = "load"
    /\ \E outcome \in outcomes :
          /\ log' = Append(log, Request("load", -1, path_to_url(input_file),
                                        dict_to_uno_properties(load_properties),
                                        outcome # "error", -1))
          /\ CASE outcome = "document" ->
                    /\ document' \in Documents
                    /\ pc' = "refresh"
                    /\ UNCHANGED exception
               [] outcome = "null" ->
                    /\ document' = NullDocument
                    /\ pc' = "refresh"
                    /\ UNCHANGED exception
               [] outcome = "error" ->
                    /\ exception' = RemoteError("load", -1)
                    /\ pc' = "end"
                    /\ UNCHANGED document
    /\ UNCHANGED << args, desktop, load_properties, count, sheet_no, files, sleeps,
                    calls, exit_code, stderr >>

Load == LoadWith({"document", "null", "error"})

\* mutant of RefreshIgnores: no except clause
RefreshIgnoresNothing(kind) == FALSE

\* line 152: the except clause around document.refresh()
RefreshIgnores(kind) == kind = "AttributeError"

\* lines 150-153: document.refresh().  The call is outside the try/finally
\* that closes the document, so an exception the except clause does not
\* name leaves convert() directly.
Refresh ==
    /\ pc = "refresh"
    /\ \E raised \in {"none", "AttributeError", "ErrorCodeIOException"} :
          \* a document without refresh (or None) has no such attribute
          /\ (raised = "AttributeError") <=> (document.state = "null" \/ ~document.canRefresh)
          /\ log' = IF raised = "AttributeError" THEN log
                    ELSE Append(log, Request("refresh", -1, << >>, << >>, raised = "none", -1))
          /\ IF raised = "none" \/ RefreshIgnores(raised)
             THEN /\ pc' = "try"
                  /\ UNCHANGED exception
             ELSE /\ exception' = IF raised = "AttributeError" THEN AttributeError("refresh")
                                  ELSE RemoteError("refresh", -1)
                  /\ pc' = "end"
    /\ UNCHANGED << args, desktop, load_properties, document, count, sheet_no, files,
                    sleeps, calls, exit_code, stderr >>

\* lines 157-161: document.Sheets and doc_sheets.Count, read once by range()
GetSheets ==
    /\ pc = "try"
    /\ IF document.state = "null"
       THEN /\ exception' = AttributeError("Sheets")
            /\ pc' = "finally"
            /\ UNCHANGED << count, sheet_no >>
       ELSE \E ok \in BOOLEAN :
               IF ok
               THEN /\ count' = Len(document.sheets)
                    /\ sheet_no' = 0
                    /\ pc' = "loop"
                    /\ UNCHANGED exception
               ELSE /\ exception' = RemoteError("Sheets", -1)
                    /\ pc' = "finally"
                    /\ UNCHANGED << count, sheet_no >>
    /\ UNCHANGED << args, desktop, load_properties, document, log, files, sleeps,
                    calls, exit_code, stderr >>

\* line 161: range(doc_sheets.Count) still has an index to yield
InRange(no, n) == no < n

\* mutant of SheetToActivate: always the first sheet
SheetToActivateFirst(no) == 0

\* line 168: the sheet the controller is asked to activate in iteration no
SheetToActivate(no) == no

\* lines 161-168: one iteration up to setActiveSheet: the optional pause,
\* getByIndex and setActiveSheet
SetActiveSheet ==
    /\ pc = "loop"
    /\ InRange(sheet_no, count)
    /\ sleeps' = IF slow THEN sleeps + 1 ELSE sleeps
    /\ \E outcome \in {"ok", "getByIndex", "setActiveSheet"} :
          CASE outcome = "ok" ->
                 /\ log' = Append(log, Request("setActiveSheet", SheetToActivate(sheet_no),
                                               << >>, << >>, TRUE, -1))
                 /\ document' = [document EXCEPT !.active = SheetToActivate(sheet_no)]
                 /\ pc' = "store"
                 /\ UNCHANGED exception
            [] outcome = "getByIndex" ->
                 /\ exception' = RemoteError("getByIndex", sheet_no)
                 /\ pc' = "finally"
                 /\ UNCHANGED << log, document >>
            [] outcome = "setActiveSheet" ->
                 /\ log' = Append(log, Request("setActiveSheet", SheetToActivate(sheet_no),
                                               << >>, << >>, FALSE, -1))
                 /\ exception' = RemoteError("setActiveSheet", sheet_no)
                 /\ pc' = "finally"
                 /\ UNCHANGED document
    /\ UNCHANGED << args, desktop, load_properties, count, sheet_no, files, calls,
                    exit_code, stderr >>

\* line 161: range() is exhausted, the try block ends normally
LoopExit ==
    /\ pc = "loop"
    /\ ~InRange(sheet_no, count)
    /\ pc' = "finally"
    /\ UNCHANGED << args, desktop, load_properties, document, count, sheet_no,
                    exception, log, files, sleeps, calls, exit_code, stderr >>

\* mutant of OutputNameBase: the positional name whatever the option
OutputNameBasePositional(no, name) == <<"s", "h", "e", "e", "t", "-">> \o Str(no + 1)

\* mutant of OutputNameBase: the positional name from the 0-based index
OutputNameBaseZeroBased(no, name) ==
    IF ignore_sheet_names
    THEN <<"s", "h", "e", "e", "t", "-">> \o Str(no)
    ELSE name

\* mutant of OutputNameBase: the positional name from the sheet count
OutputNameBaseCount(no, name) ==
    IF ignore_sheet_names
    THEN <<"s", "h", "e", "e", "t", "-">> \o Str(count)
    ELSE name

\* lines 137, 170-173: output_name_base of the sheet with index no and
\* display name name
OutputNameBase(no, name) ==
    IF ignore_sheet_names
    THEN <<"s", "h", "e", "e", "t", "-">> \o Str(no + 1)
    ELSE name

\* line 175: output_url
OutputUrl(base) == path_to_url(Join(output_dir, base \o <<".">> \o <<"c", "s", "v">>))

\* line 161: the index range() yields after no
NextSheet(no) == no + 1

\* lines 170-177: the output name is computed and storeToURL is called; the
\* service writes the content of the active sheet to the URL
Store ==
    /\ pc = "store"
    /\ LET url == OutputUrl(OutputNameBase(sheet_no, document.sheets[sheet_no + 1]))
       IN  \E ok \in BOOLEAN :
              /\ log' = Append(log, Request("storeToURL", sheet_no, url,
                                            dict_to_uno_properties(CSV_EXPORT_FILTER),
                                            ok, document.active))
              /\ IF ok
                 THEN /\ files' = { f \in files : f.url # url }
                                    \cup { [url |-> url, sheet |-> document.active] }
                      /\ sheet_no' = NextSheet(sheet_no)
                      /\ pc' = "loop"
                      /\ UNCHANGED exception
                 ELSE /\ exception' = RemoteError("storeToURL", sheet_no)
                      /\ pc' = "finally"
                      /\ UNCHANGED << files, sheet_no >>
    /\ UNCHANGED << args, desktop, load_properties, document, count, sleeps, calls,
                    exit_code, stderr >>

\* mutant of CloseWanted: keep_open is not consulted
CloseAlways == TRUE

\* line 180: the condition of the cleanup
CloseWanted == ~keep_open

\* lines 179-181: the finally clause.  An exception raised inside it replaces
\* the one in flight.
Finally ==
    /\ pc = "finally"
    /\ IF ~CloseWanted
       THEN UNCHANGED << log, document, exception >>
       ELSE IF document.state = "null"
       THEN /\ exception' = AttributeError("close")
            /\ UNCHANGED << log, document >>
       ELSE \E ok \in BOOLEAN :
               /\ log' = Append(log, Request("close", -1, << >>, << >>, ok, -1))
               /\ document' = [document EXCEPT !.state = IF ok THEN "closed" ELSE @]
               /\ exception' = IF ok THEN exception ELSE RemoteError("close", -1)
    /\ pc' = "end"
    /\ UNCHANGED << args, desktop, load_properties, count, sheet_no, files, sleeps,
                    calls, exit_code, stderr >>

\* lines 225-247 and the end of main(): the except clauses of main() map the
\* exception to a diagnostic; an exception no clause names ends the process
\* with a traceback.  Without exception main() returns.
End ==
    /\ pc = "end"
    /\ stderr' = CASE exception.kind = "none" -> "none"
                   [] exception.kind = "LibreOfficeConnectionException" -> "Error: connection"
                   [] exception.kind = "ErrorCodeIOException" -> "Error: ErrorCodeIOException"
                   [] OTHER -> "Traceback"
    /\ exit_code' = IF exception.kind = "none" THEN 0 ELSE 1
    /\ pc' = "exit"
    /\ UNCHANGED << args, desktop, load_properties, document, count, sheet_no,
                    exception, log, files, sleeps, calls >>

Next ==
    \/ Main
    \/ Connect
    \/ ComputeLoadProperties
    \/ Load
    \/ Refresh
    \/ GetSheets
    \/ SetActiveSheet
    \/ LoopExit
    \/ Store
    \/ Finally
    \/ End

Spec == Init /\ [][Next]_vars

\* ------------------------------------------- get_file_ext on bounded paths

\* characters of the exhaustively enumerated input paths
PathChars == { "c", "s", "v", "C", "S", "V", ".", "/" }

\* further input paths, for the extensions PathChars cannot spell
SamplePaths ==
    { <<"a", ".", "t", "x", "t">>, <<"A", ".", "T", "X", "T">>, <<"a", ".", "T", "x", "t">>,
      <<"a", ".", "x", "y", "z">>, <<"a">>, <<"t", "x", "t">>, <<".", "t", "x", "t">>,
      <<"a", ".", "c", "s", "v", ".", "t", "x", "t">>,
      <<"a", ".", "t", "x", "t", ".", "c", "s", "v">>,
      <<"a", ".", "t", "x", "t", "/", "b">>, <<"a", ".", "t", "x", "t", "x">>,
      <<"a", ".", "c", "s", "v", " ">>, <<"a", "t", "x", "t">> }

InputPaths == SamplePaths \cup UNION { [1..n -> PathChars] : n \in 1..MaxPathLen }

\* convert() is about to be entered on an established session
InitExt ==
    /\ pc = "convert"
    /\ input_file \in InputPaths
    /\ output_dir = <<"o">>
    /\ host = DEFAULT_OPENOFFICE_HOST
    /\ port = DEFAULT_OPENOFFICE_PORT
    /\ slow = FALSE
    /\ keep_open = FALSE
    /\ ignore_sheet_names = FALSE
    /\ desktop = TRUE
    /\ load_properties = EmptyDict
    /\ document = NoDocument
    /\ count = 0
    /\ sheet_no = 0
    /\ exception = NoException
    /\ log = << >>
    /\ files = {}
    /\ sleeps = 0
    /\ calls = 0
    /\ exit_code = -1
    /\ stderr = "none"

\* the load step alone, for the outcomes that do not depend on a document
LoadNoDocument == LoadWith({"null", "error"})

NextExt ==
    \/ ComputeLoadProperties
    \/ LoadNoDocument

SpecExt == InitExt /\ [][NextExt]_vars

\* ---------------------------------------------------- vocabulary of claims

\* the requests of kind op, in the order they were issued
Requests(op) == SelectSeq(log, LAMBDA r : r.op = op)

Stores == Requests("storeToURL")

NumClose == Len(Requests("close"))

\* loadComponentFromURL returned a document
Loaded == document.state \in {"open", "closed"}

\* convert() was called and has returned or raised
ConvertLeft == calls = 1 /\ pc \in {"end", "exit"}

\* convert() returned normally: no call failed
Succeeded == ConvertLeft /\ exception.kind = "none"

NumSheets == Len(document.sheets)

NamesDistinct ==
    \A i, j \in 1..NumSheets : i # j => document.sheets[i] # document.sheets[j]

\* the file URL of <output_dir>/<base>.csv, written out
TargetUrl(base) ==
    FileScheme \o Encode(AbsPath(output_dir)) \o <<"/">> \o Encode(base)
               \o <<".", "c", "s", "v">>

\* sheet-<n> for n in 1..9, written out
Positional(n) ==
    <<"s", "h", "e", "e", "t", "-">> \o << <<"1", "2", "3", "4", "5", "6", "7", "8", "9">>[n] >>

\* the base name the specification gives the sheet with 0-based index i
SpecBase(i) == IF ignore_sheet_names THEN Positional(i + 1) ELSE document.sheets[i + 1]

FileUrls == { f.url : f \in files }

\* ------------------------------------------------------------------ claims

\* C1 (as claimed): with keep_open false, once convert() is left the number
\* of close requests is 1 if the load returned a document and 0 otherwise,
\* on every exit path.
C1_ClosedExactlyOnce ==
    (ConvertLeft /\ ~keep_open) => NumClose = (IF Loaded THEN 1 ELSE 0)

\* C1, the part the code keeps: on every exit path except an exception
\* raised by refresh() the document is closed exactly once.
C1_ClosedUnlessRefreshRaised ==
    (ConvertLeft /\ ~keep_open /\ exception.op # "refresh")
        => NumClose = (IF Loaded THEN 1 ELSE 0)

\* C2: with keep_open true no close request is ever issued.
C2_KeepOpenNeverCloses == keep_open => NumClose = 0

C2_Witness ==
    /\ keep_open
    /\ pc = "exit"
    /\ Loaded
    /\ Len(Stores) >= 1
    /\ exception.op = "storeToURL"

\* C3: ignore_sheet_names false, pairwise distinct names, no call failed:
\* exactly N store requests, the i-th for sheet i to <output_dir>/<name>.csv,
\* and exactly these N files exist.
C3_OneFilePerSheetName ==
    (Succeeded /\ ~ignore_sheet_names /\ NamesDistinct) =>
        /\ Len(Stores) = NumSheets
        /\ \A i \in 1..NumSheets :
              /\ Stores[i].sheet = i - 1
              /\ Stores[i].url = TargetUrl(document.sheets[i])
        /\ FileUrls = { TargetUrl(document.sheets[i]) : i \in 1..NumSheets }
        /\ Cardinality(files) = NumSheets

C3_Witness ==
    /\ Succeeded
    /\ ~ignore_sheet_names
    /\ NamesDistinct
    /\ NumSheets >= 2
    /\ \E i \in 1..NumSheets : document.sheets[i] = <<".", " ">>
    /\ Cardinality(files) = NumSheets

\* C4: ignore_sheet_names true, no call failed: the files written are
\* exactly sheet-1.csv .. sheet-N.csv, sheet index i going to sheet-<i+1>.csv,
\* whatever the names.
C4_PositionalNames ==
    (Succeeded /\ ignore_sheet_names) =>
        /\ Len(Stores) = NumSheets
        /\ \A i \in 1..NumSheets :
              /\ Stores[i].sheet = i - 1
              /\ Stores[i].url = TargetUrl(Positional(i))
        /\ FileUrls = { TargetUrl(Positional(i)) : i \in 1..NumSheets }

C4_Witness ==
    /\ Succeeded
    /\ ignore_sheet_names
    /\ NumSheets >= 2
    /\ ~NamesDistinct
    /\ \E i \in 1..NumSheets : document.sheets[i] = << >>
    /\ Len(Stores) = NumSheets

\* no two store requests of the call have the same target, and every file
\* holds the sheet it was named for
CollisionFree ==
    /\ Cardinality(files) = NumSheets
    /\ \A i, j \in 1..Len(Stores) : i # j => Stores[i].url # Stores[j].url
    /\ \A i \in 1..Len(Stores) : [url |-> Stores[i].url, sheet |-> Stores[i].sheet] \in files

\* C5 (as claimed): after any successful convert(), for either value of
\* ignore_sheet_names, there are as many files as sheets and no store
\* overwrote an earlier one.
C5_AlwaysCollisionFree == Succeeded => CollisionFree

\* C5 (amended): the same, provided ignore_sheet_names is true or the
\* display names are pairwise distinct.
C5_CollisionFreeIfDistinct ==
    (Succeeded /\ (ignore_sheet_names \/ NamesDistinct)) => CollisionFree

C5_Witness ==
    /\ Succeeded
    /\ ignore_sheet_names
    /\ NumSheets >= 2
    /\ document.sheets[1] = document.sheets[2]
    /\ Cardinality(files) = NumSheets

\* C6: when no connection can be established, constructing CsvConverter
\* fails with the connection error carrying exactly the host and port given,
\* convert() is never entered and no request is issued.
C6_ConnectionError ==
    /\ (calls > 0 \/ log # << >>) => desktop
    /\ (pc \in {"end", "exit"} /\ ~desktop /\ stderr \notin {"No such file", "Not a directory"})
          => /\ exception.kind = "LibreOfficeConnectionException"
             /\ exception.host = host
             /\ exception.port = port
             /\ calls = 0
             /\ log = << >>
             /\ files = {}

C6_Witness ==
    /\ pc = "exit"
    /\ exception.kind = "LibreOfficeConnectionException"
    /\ host # DEFAULT_OPENOFFICE_HOST
    /\ port # DEFAULT_OPENOFFICE_PORT
    /\ exit_code = 1

\* path ends in a dot followed by ext in some letter case, and the last path
\* component has a character other than a dot before that dot
HasExtension(path, ext) ==
    LET d == Len(path) - Len(ext)
    IN  /\ d >= 2
        /\ path[d] = "."
        /\ \A k \in 1..Len(ext) : LowerChar(path[d + k]) = ext[k]
        /\ \E k \in 1..(d - 1) :
              /\ path[k] \notin {".", "/"}
              /\ \A j \in k..d : path[j] # "/"

\* the import filter the specification gives an input path, as property values
SpecLoadOptions(path) ==
    IF HasExtension(path, <<"c", "s", "v">>)
    THEN << [Name |-> "FilterName", Value |-> "Text - txt - csv (StarCalc)"],
            [Name |-> "FilterOptions", Value |-> "44,34,0"] >>
    ELSE IF HasExtension(path, <<"t", "x", "t">>)
    THEN << [Name |-> "FilterName", Value |-> "Text (encoded)"],
            [Name |-> "FilterOptions", Value |-> "utf8"] >>
    ELSE << >>

\* C7: the load options passed to loadComponentFromURL depend on the
\* lower-cased extension of input_file only: the csv descriptor for csv in
\* any letter case, the txt descriptor for txt, nothing otherwise.
C7_LoadOptionsByExtension ==
    /\ pc # "convert" => dict_to_uno_properties(load_properties) = SpecLoadOptions(input_file)
    /\ \A p \in 1..Len(log) :
          log[p].op = "load" => log[p].props = SpecLoadOptions(input_file)

C7_Witness ==
    /\ Len(log) = 1
    /\ log[1].op = "load"
    /\ input_file = <<"s", ".", "C", "s", "V">>
    /\ Len(log[1].props) = 2

\* what C8 says of a failed store request at position p of the log, but for
\* the exception that leaves convert()
StoreFailureEnds(p) ==
    LET k == log[p].sheet
    IN  /\ p = Len(log) - (IF keep_open THEN 0 ELSE 1)
        /\ ~keep_open => log[Len(log)].op = "close"
        /\ Len(Stores) = k + 1
        /\ \A i \in 1..k :
              /\ Stores[i].sheet = i - 1
              /\ Stores[i].ok
              /\ Stores[i].url \in FileUrls
        /\ Len(Requests("setActiveSheet")) = k + 1
        /\ exception.kind # "none"
        /\ exit_code # 0

\* C8 (as claimed): if the store of sheet K fails, the files of the sheets
\* before it remain, no request is issued for a later sheet, nothing is
\* retried, and convert() ends by propagating that failure after the close.
C8_StoreFailurePropagates ==
    \A p \in 1..Len(log) :
        (ConvertLeft /\ log[p].op = "storeToURL" /\ ~log[p].ok) =>
            /\ StoreFailureEnds(p)
            /\ exception = RemoteError("storeToURL", log[p].sheet)

\* C8, the part the code keeps: all of it when the close succeeds or is not
\* wanted; when the close itself fails, its exception leaves convert().
C8_StoreFailureUnlessCloseFails ==
    \A p \in 1..Len(log) :
        (ConvertLeft /\ log[p].op = "storeToURL" /\ ~log[p].ok) =>
            /\ StoreFailureEnds(p)
            /\ exception = IF ~keep_open /\ ~log[Len(log)].ok
                           THEN RemoteError("close", -1)
                           ELSE RemoteError("storeToURL", log[p].sheet)

\* C9: for a document without refresh the refresh step changes nothing and
\* raises nothing, convert() goes on to the export loop, and a run without
\* failure stores every sheet to its target and returns normally.
C9_RefreshUnsupportedIsNoop ==
    /\ [][(pc = "refresh" /\ Loaded /\ ~document.canRefresh)
            => (pc' = "try" /\ UNCHANGED << exception, log, document, files >>)]_vars
    /\ []((Loaded /\ ~document.canRefresh) =>
            /\ exception.op # "refresh"
            /\ Requests("refresh") = << >>)
    /\ []((Loaded /\ ~document.canRefresh /\ Succeeded) =>
            /\ exit_code \in {-1, 0}
            /\ Len(Stores) = NumSheets
            /\ \A i \in 1..NumSheets : Stores[i].url = TargetUrl(SpecBase(i - 1)))

C9_Witness ==
    /\ pc = "exit"
    /\ Loaded
    /\ ~document.canRefresh
    /\ exit_code = 0
    /\ Len(Stores) = NumSheets
    /\ NumSheets >= 2
    /\ NumClose = 1

\* C10: the requests of one convert() are issued one after the other in the
\* order load, refresh, then set-active-sheet(i) and store for i = 0, 1, ..,
\* then close; a request other than close is issued only if all before it
\* succeeded; at every store the active sheet is the one set by the request just before it and
\* the one the store's target is named for.
C10_SequentialOrder ==
    \A p \in 1..Len(log) :
        LET r == log[p]
            storesBefore == Len(SelectSeq(SubSeq(log, 1, p - 1), LAMBDA q : q.op = "storeToURL"))
        IN  /\ (p < Len(log) /\ log[p + 1].op # "close") => r.ok
            /\ r.op = "load" <=> p = 1
            /\ r.op = "refresh" => p = 2
            /\ r.op = "setActiveSheet" =>
                  /\ r.sheet = storesBefore
                  /\ r.sheet < NumSheets
                  /\ log[p - 1].op \in (IF r.sheet = 0 THEN {"load", "refresh"}
                                                       ELSE {"storeToURL"})
            /\ r.op = "storeToURL" =>
                  /\ log[p - 1].op = "setActiveSheet"
                  /\ log[p - 1].sheet = r.sheet
                  /\ r.active = r.sheet
                  /\ r.url = TargetUrl(SpecBase(r.sheet))
            /\ r.op = "close" => p = Len(log) /\ p > 1

C10_Witness ==
    /\ pc = "exit"
    /\ Len(Stores) = NumSheets
    /\ NumSheets >= 2
    /\ Len(Requests("refresh")) = 1
    /\ NumClose = 1
    /\ ~ignore_sheet_names

====
